---- MODULE Spec2Model ----
(***************************************************************************)
(* deps: a dependency fetcher.  The model covers the lock file             *)
(* (.deps.lock), the materialized trees under .deps/, the remote           *)
(* (api.github.com) and the four commands get / check / install / update.  *)
(*                                                                         *)
(* Strings are TLA+ strings; a string that the code splits (a spec on "@", *)
(* a URL or an archive entry name on "/") is the sequence of its parts, as *)
(* strings.Split returns them ("a/b/" is <<"a", "b", "">>).                *)
(***************************************************************************)
EXTENDS Naturals, Integers, Sequences, FiniteSets, TLC

\* ------------------------------------------------------------------ strings

\* Length of a commit identifier (github.go: "^[a-f0-9]{40}$").
ShaLen == 40
\* Length of the abbreviation printed for an identifier (sha[:8]).
AbbrevLen == 8

ShaA == "aaaaaaaaaaaaaaaaaaaaaaaaaaaaaaaaaaaaaaaa"
ShaB == "bbbbbbbbbbbbbbbbbbbbbbbbbbbbbbbbbbbbbbbb"
ShaC == "cccccccccccccccccccccccccccccccccccccccc"
\* An identifier as a hand-written lock file may hold it: too short to abbreviate.
ShaShort == "abc"

\* Forty hexadecimal digits, in capitals.
ShaUpper == "AAAAAAAAAAAAAAAAAAAAAAAAAAAAAAAAAAAAAAAA"

\* The strings of the universe made of the characters a-f and 0-9 only.
LowerHex == {ShaA, ShaB, ShaC, ShaShort, ""}

\* A faulty IsCommitSHA: the pattern asks for the length of an abbreviation.
IsCommitSHAShort(ref) == ref \in LowerHex /\ Len(ref) = AbbrevLen

\* regexp.MatchString("^[a-f0-9]{40}$", ref)
IsCommitSHA(ref) == ref \in LowerHex /\ Len(ref) = ShaLen

\* s[:8] panics (slice bounds out of range) when s is shorter than 8 bytes.
AbbrevPanics(s) == Len(s) < AbbrevLen

\* ------------------------------------------------------------------ parsing

\* parseGitHubSpec: strings.Split(spec, "@"); spec is given as its parts.
parseGitHubSpec(spec) ==
    IF Len(spec) = 1 THEN [err |-> FALSE, repoURL |-> spec[1], ref |-> ""]
    ELSE IF Len(spec) = 2 THEN [err |-> FALSE, repoURL |-> spec[1], ref |-> spec[2]]
    ELSE [err |-> TRUE, repoURL |-> <<>>, ref |-> ""]

\* parseGitHubURL: ^github\.com/([^/]+)/([^/]+)/?$ on the "/"-parts of the url.
parseGitHubURL(url) ==
    IF /\ Len(url) \in {3, 4}
       /\ url[1] = "github.com"
       /\ url[2] # ""
       /\ url[3] # ""
       /\ (Len(url) = 4 => url[4] = "")
    THEN [err |-> FALSE, owner |-> url[2], repo |-> url[3]]
    ELSE [err |-> TRUE, owner |-> "", repo |-> ""]

\* ---------------------------------------------------------------- paths

RECURSIVE Clean(_)
\* filepath.Clean on a relative path given as its "/"-parts: empty and "."
\* parts are dropped, "x/.." is eliminated, a leading ".." is kept.
Clean(parts) ==
    IF parts = <<>> THEN <<>>
    ELSE LET n    == Len(parts)
             init == Clean(SubSeq(parts, 1, n - 1))
             last == parts[n]
         IN  IF last = "" \/ last = "." THEN init
             ELSE IF last = ".." /\ init # <<>> /\ init[Len(init)] # ".."
                  THEN SubSeq(init, 1, Len(init) - 1)
             ELSE Append(init, last)

\* filepath.Join(a, b) == Clean(a + "/" + b)
Join(a, b) == Clean(a \o b)

\* getDepPath: filepath.Join(".deps", repoURL)
getDepPath(repoURL) == Join(<<".deps">>, repoURL)

IsPrefix(p, q) == Len(p) <= Len(q) /\ SubSeq(q, 1, Len(p)) = p

\* ------------------------------------------------------------ file system

\* The file system below the working directory: a set of nodes
\* [path, kind, data]; a path is the sequence of its segments.
Dir(path) == SubSeq(path, 1, Len(path) - 1)

Exists(fs, path) == \E n \in fs : n.path = path

IsDir(fs, path) == \E n \in fs : n.path = path /\ n.kind = "dir"

IsFile(fs, path) == \E n \in fs : n.path = path /\ n.kind = "file"

\* os.RemoveAll(path): the node and everything below it.
RemoveAll(fs, path) == {n \in fs : ~IsPrefix(path, n.path)}

\* os.MkdirAll(path): the directory and its missing ancestors; fails when a
\* segment of the path exists as a regular file.
MkdirAll(fs, path) ==
    LET prefixes == {SubSeq(path, 1, i) : i \in 1..Len(path)}
    IN  IF \E q \in prefixes : IsFile(fs, q)
        THEN [fs |-> fs, err |-> TRUE]
        ELSE [fs  |-> fs \cup {[path |-> q, kind |-> "dir", data |-> <<>>] :
                                 q \in {r \in prefixes : ~Exists(fs, r)}},
              err |-> FALSE]

\* os.OpenFile(target, O_CREATE|O_WRONLY, mode) then io.Copy: the file is
\* created when missing and is not truncated; the bytes written replace the
\* first Len(data) bytes and whatever lay beyond them stays.
WriteData(old, data) ==
    IF Len(old) > Len(data) THEN data \o SubSeq(old, Len(data) + 1, Len(old))
    ELSE data

CopyToFile(fs, target, data) ==
    IF IsDir(fs, target) \/ ~IsDir(fs, Dir(target)) THEN [fs |-> fs, err |-> TRUE]
    ELSE LET old == IF IsFile(fs, target)
                    THEN (CHOOSE n \in fs : n.path = target).data
                    ELSE <<>>
         IN  [fs  |-> {n \in fs : n.path # target}
                        \cup {[path |-> target, kind |-> "file",
                               data |-> WriteData(old, data)]},
              err |-> FALSE]

\* ------------------------------------------------------------- extraction

\* The names of the universe that contain a hyphen (strings.Contains(x, "-")).
Hyphenated == {"r-aaaaaaa", "r-bbbbbbb", "q-aaaaaaa", "x-y"}

ContainsHyphen(seg) == seg \in Hyphenated

\* A faulty ExtractEntry: the root directory is detected and left in the name.
ExtractEntryUnstripped(st, h, destPath) ==
    IF h.typeflag = "xglobal" \/ h.name = <<"pax_global_header">> THEN st
    ELSE
    LET rootDir == IF st.rootDir = "" /\ Len(h.name) > 1 /\ ContainsHyphen(h.name[1])
                   THEN h.name[1]
                   ELSE st.rootDir
        st1     == [st EXCEPT !.rootDir = rootDir]
    IN  IF h.typeflag = "dir" /\ rootDir # "" /\ h.name = <<rootDir>> THEN st1
        ELSE IF rootDir = "" \/ ~(Len(h.name) > 1 /\ h.name[1] = rootDir) THEN st1
        ELSE LET target == Join(destPath, h.name)
             IN  IF h.typeflag = "dir"
                 THEN LET m == MkdirAll(st1.fs, target)
                      IN  [st1 EXCEPT !.fs = m.fs, !.err = m.err]
                 ELSE IF h.typeflag = "reg"
                 THEN LET m == MkdirAll(st1.fs, Dir(target))
                          c == CopyToFile(m.fs, target, h.data)
                      IN  IF m.err THEN [st1 EXCEPT !.err = TRUE]
                          ELSE [st1 EXCEPT !.fs = c.fs, !.err = c.err]
                 ELSE st1

\* A faulty ExtractEntry: once a root directory is detected, an entry under
\* another top-level directory is written too, less its first segment.
ExtractEntryAnyPrefix(st, h, destPath) ==
    IF h.typeflag = "xglobal" \/ h.name = <<"pax_global_header">> THEN st
    ELSE
    LET rootDir == IF st.rootDir = "" /\ Len(h.name) > 1 /\ ContainsHyphen(h.name[1])
                   THEN h.name[1]
                   ELSE st.rootDir
        st1     == [st EXCEPT !.rootDir = rootDir]
    IN  IF h.typeflag = "dir" /\ rootDir # "" /\ h.name = <<rootDir>> THEN st1
        ELSE IF rootDir = "" \/ ~(Len(h.name) > 1) THEN st1
        ELSE LET name == Tail(h.name)
             IN  IF name = <<"">> THEN st1
                 ELSE LET target == Join(destPath, name)
                      IN  IF h.typeflag = "dir"
                          THEN LET m == MkdirAll(st1.fs, target)
                               IN  [st1 EXCEPT !.fs = m.fs, !.err = m.err]
                          ELSE IF h.typeflag = "reg"
                          THEN LET m == MkdirAll(st1.fs, Dir(target))
                                   c == CopyToFile(m.fs, target, h.data)
                               IN  IF m.err THEN [st1 EXCEPT !.err = TRUE]
                                   ELSE [st1 EXCEPT !.fs = c.fs, !.err = c.err]
                          ELSE st1

\* One iteration of the loop of extractTarball on header h, from the loop
\* state st = [fs, rootDir, err]; rootDir is kept without its trailing "/"
\* and is "" while no root directory has been detected.
ExtractEntry(st, h, destPath) ==
    IF h.typeflag = "xglobal" \/ h.name = <<"pax_global_header">> THEN st
    ELSE
    LET rootDir == IF st.rootDir = "" /\ Len(h.name) > 1 /\ ContainsHyphen(h.name[1])
                   THEN h.name[1]
                   ELSE st.rootDir
        st1     == [st EXCEPT !.rootDir = rootDir]
    IN  IF h.typeflag = "dir" /\ rootDir # "" /\ h.name = <<rootDir>> THEN st1
        ELSE IF rootDir = "" \/ ~(Len(h.name) > 1 /\ h.name[1] = rootDir) THEN st1
        ELSE LET name == Tail(h.name)
             IN  IF name = <<"">> THEN st1
                 ELSE LET target == Join(destPath, name)
                      IN  IF h.typeflag = "dir"
                          THEN LET m == MkdirAll(st1.fs, target)
                               IN  [st1 EXCEPT !.fs = m.fs, !.err = m.err]
                          ELSE IF h.typeflag = "reg"
                          THEN LET m == MkdirAll(st1.fs, Dir(target))
                                   c == CopyToFile(m.fs, target, h.data)
                               IN  IF m.err THEN [st1 EXCEPT !.err = TRUE]
                                   ELSE [st1 EXCEPT !.fs = c.fs, !.err = c.err]
                          ELSE st1

RECURSIVE ExtractLoop(_, _, _, _)
\* The loop of extractTarball over entries[i..]: stops at the first error.
ExtractLoop(st, entries, i, destPath) ==
    IF st.err \/ i > Len(entries) THEN st
    ELSE ExtractLoop(ExtractEntry(st, entries[i], destPath), entries, i + 1, destPath)

\* extractTarball(r, destPath).  The stream r is [gz, entries, trunc]: gz is
\* whether gzip.NewReader accepts it, entries the headers tr.Next returns and
\* trunc whether tr.Next then fails instead of reporting io.EOF.  mkdirOK is
\* whether os.MkdirAll(destPath) succeeds and removeOK whether
\* os.RemoveAll(destPath) does: its error is not looked at, and when it fails
\* on the first thing it tries to delete everything is still there.
\* Returns [fs, err].
extractTarballOn(fs, r, destPath, mkdirOK, removeOK) ==
    LET removed == IF removeOK THEN RemoveAll(fs, destPath) ELSE fs
        made    == MkdirAll(removed, destPath)
    IN  IF ~mkdirOK \/ made.err THEN [fs |-> removed, err |-> TRUE]
        ELSE IF ~r.gz THEN [fs |-> made.fs, err |-> TRUE]
        ELSE LET st == ExtractLoop([fs |-> made.fs, rootDir |-> "", err |-> FALSE],
                                   r.entries, 1, destPath)
             IN  [fs |-> st.fs, err |-> st.err \/ r.trunc]

\* extractTarball as the commands meet it: os.RemoveAll succeeds.
extractTarball(fs, r, destPath, mkdirOK) ==
    extractTarballOn(fs, r, destPath, mkdirOK, TRUE)

\* ----------------------------------------------------------------- remote

\* The remote is [defaultBranch, branches, tags]: branches and tags map the
\* names that exist to the identifier they point at.  The repositories of
\* the universe are mirrors of one another: they share their refs.
R0 == [defaultBranch |-> "main",
       branches |-> [n \in {"main"} |-> ShaA],
       tags     |-> [n \in {"v1"} |-> ShaC]]

\* After a push to main and a new branch named like the tag: "v1" names a
\* branch and a tag, pointing at different commits.
R1 == [defaultBranch |-> "main",
       branches |-> [n \in {"main", "v1"} |-> IF n = "main" THEN ShaB ELSE ShaA],
       tags     |-> [n \in {"v1"} |-> ShaC]]

RemoteStates == {R0, R1}

\* A remote without tags.
R2 == [defaultBranch |-> "main",
       branches |-> [n \in {"main"} |-> ShaB],
       tags     |-> [n \in {} |-> ShaC]]

\* What one step of an invocation meets outside the program:
\*   lookup  which API lookups are answered at all (no transport error, no
\*           server error): "all", or the ones that are not;
\*   dl      how the tarball download ends:
\*             "neterr"    http.Get fails
\*             "status"    the response status is not 200
\*             "mkdir"     os.MkdirAll(destPath) fails
\*             "badgzip"   the body is not a gzip stream
\*             "truncated" the stream breaks `lost` headers before its end
\*             "ok"        the whole archive arrives
\*   save    how saveLockFile ends (see saveLockFile).
\* A step meets at most one of these failures.
MaxLost == 1

Lookups == {"all", "no_repo", "no_branch", "no_tag", "no_branch_no_tag"}

DlKinds == {"neterr", "status", "mkdir", "badgzip", "truncated", "ok"}

SaveOutcomes == {"ok", "open", "torn"}

Envs == {e \in [lookup : Lookups, dl : DlKinds, lost : 1..MaxLost, save : SaveOutcomes] :
            /\ e.dl # "truncated" => e.lost = 1
            /\ \/ e.lookup = "all" /\ e.dl = "ok"
               \/ e.lookup = "all" /\ e.save = "ok"
               \/ e.dl = "ok" /\ e.save = "ok"}

RepoAnswers(env) == env.lookup # "no_repo"

BranchAnswers(env) == env.lookup \notin {"no_branch", "no_branch_no_tag"}

TagAnswers(env) == env.lookup \notin {"no_tag", "no_branch_no_tag"}

\* handleInstall makes no lookup and saves nothing.
InstallEnvs == {e \in Envs : e.lookup = "all" /\ e.save = "ok"}

\* ---------------------------------------------------------------- resolver

NoRef == [err |-> TRUE, sha |-> "", resolvedRef |-> "", calls |-> <<>>]

\* getBranchCommitSHA: GET /repos/o/r/branches/<branch>
getBranchCommitSHA(rem, branch, env) ==
    IF BranchAnswers(env) /\ branch \in DOMAIN rem.branches
    THEN [err |-> FALSE, sha |-> rem.branches[branch], resolvedRef |-> branch,
          calls |-> <<"branch">>]
    ELSE [NoRef EXCEPT !.calls = <<"branch">>]

\* getTagCommitSHA: GET /repos/o/r/git/refs/tags/<tag>
getTagCommitSHA(rem, tag, env) ==
    IF TagAnswers(env) /\ tag \in DOMAIN rem.tags
    THEN [err |-> FALSE, sha |-> rem.tags[tag], calls |-> <<"tag">>]
    ELSE [err |-> TRUE, sha |-> "", calls |-> <<"tag">>]

\* getLatestCommitSHA: GET /repos/o/r, then the branch it names as default.
getLatestCommitSHA(rem, env) ==
    IF ~RepoAnswers(env) THEN [NoRef EXCEPT !.calls = <<"repo">>]
    ELSE IF BranchAnswers(env) /\ rem.defaultBranch \in DOMAIN rem.branches
    THEN [err |-> FALSE, sha |-> rem.branches[rem.defaultBranch],
          resolvedRef |-> rem.defaultBranch, calls |-> <<"repo", "branch">>]
    ELSE [NoRef EXCEPT !.calls = <<"repo", "branch">>]

\* What the error of a ref that is neither a branch nor a tag carries: the
\* values formatted into "could not resolve ref '%s' as branch or tag".
notResolved(owner, repo, ref) == <<ref>>

\* A faulty resolveRef: the tag is looked up before the branch.
resolveRefTagFirst(rem, ref, env) ==
    IF ref = "" THEN getLatestCommitSHA(rem, env)
    ELSE IF IsCommitSHA(ref)
    THEN [err |-> FALSE, sha |-> ref, resolvedRef |-> ref, calls |-> <<>>]
    ELSE LET b == getBranchCommitSHA(rem, ref, env)
             t == getTagCommitSHA(rem, ref, env)
         IN  IF ~t.err
             THEN [err |-> FALSE, sha |-> t.sha, resolvedRef |-> ref,
                   calls |-> t.calls]
             ELSE IF ~b.err THEN [b EXCEPT !.calls = t.calls \o b.calls]
             ELSE [NoRef EXCEPT !.calls = t.calls \o b.calls]

\* A faulty resolveRef: only a branch that the host reports missing sends
\* it to the tags; a lookup that is not answered ends it.
resolveRefGivesUp(rem, ref, env) ==
    IF ref = "" THEN getLatestCommitSHA(rem, env)
    ELSE IF IsCommitSHA(ref)
    THEN [err |-> FALSE, sha |-> ref, resolvedRef |-> ref, calls |-> <<>>]
    ELSE LET b == getBranchCommitSHA(rem, ref, env)
             t == getTagCommitSHA(rem, ref, env)
         IN  IF ~b.err THEN b
             ELSE IF ~BranchAnswers(env) THEN b
             ELSE IF ~t.err
             THEN [err |-> FALSE, sha |-> t.sha, resolvedRef |-> ref,
                   calls |-> b.calls \o t.calls]
             ELSE [NoRef EXCEPT !.calls = b.calls \o t.calls]

\* resolveRef(owner, repo, ref) against the remote rem.
resolveRef(rem, ref, env) ==
    IF ref = "" THEN getLatestCommitSHA(rem, env)
    ELSE IF IsCommitSHA(ref)
    THEN [err |-> FALSE, sha |-> ref, resolvedRef |-> ref, calls |-> <<>>]
    ELSE LET b == getBranchCommitSHA(rem, ref, env)
             t == getTagCommitSHA(rem, ref, env)
         IN  IF ~b.err THEN b
             ELSE IF ~t.err
             THEN [err |-> FALSE, sha |-> t.sha, resolvedRef |-> ref,
                   calls |-> b.calls \o t.calls]
             ELSE [NoRef EXCEPT !.calls = b.calls \o t.calls]

\* ---------------------------------------------------------------- download

File(name, data) == [name |-> name, typeflag |-> "reg", data |-> data]

Folder(name) == [name |-> name, typeflag |-> "dir", data |-> <<>>]

PaxHeader == [name |-> <<"pax_global_header">>, typeflag |-> "xglobal", data |-> <<>>]

\* The archive of each commit.  ShaA and ShaB are wrapped the way the host
\* wraps them; the archive of ShaC has no wrapper directory.
Tarball(sha) ==
    IF sha = ShaA
    THEN <<PaxHeader, Folder(<<"r-aaaaaaa", "">>),
           File(<<"r-aaaaaaa", "a.txt">>, <<1, 2>>),
           File(<<"r-aaaaaaa", "lib", "l.txt">>, <<5>>)>>
    ELSE IF sha = ShaB
    THEN <<File(<<"r-bbbbbbb", "src", "b.txt">>, <<3>>)>>
    ELSE IF sha = ShaC
    THEN <<PaxHeader, File(<<"README">>, <<4>>)>>
    ELSE <<>>

Max(a, b) == IF a >= b THEN a ELSE b

\* downloadRepo(owner, repo, sha, repoURL): returns [fs, err, calls].
downloadRepo(fs, sha, repoURL, env) ==
    LET deps == MkdirAll(fs, <<".deps">>)
        all  == Tarball(sha)
        body == IF env.dl \in {"ok", "mkdir"} THEN [gz |-> TRUE, entries |-> all, trunc |-> FALSE]
                ELSE IF env.dl = "truncated"
                THEN [gz |-> TRUE,
                      entries |-> SubSeq(all, 1, Max(Len(all) - env.lost, 0)),
                      trunc |-> TRUE]
                ELSE [gz |-> FALSE, entries |-> <<>>, trunc |-> FALSE]
        ex   == extractTarball(deps.fs, body, getDepPath(repoURL), env.dl # "mkdir")
    IN  IF deps.err THEN [fs |-> fs, err |-> TRUE, calls |-> <<>>]
        ELSE IF env.dl = "neterr" \/ env.dl = "status" \/ all = <<>>
        THEN [fs |-> deps.fs, err |-> TRUE, calls |-> <<"tarball">>]
        ELSE [fs |-> ex.fs, err |-> ex.err, calls |-> <<"tarball">>]

\* ---------------------------------------------------------------- lock file

\* The content of .deps.lock is [form, deps]: form is "absent", "malformed"
\* (not the JSON of a lock file), "null" (a JSON object whose "dependencies"
\* is null) or "map", and then deps is the dependencies mapping: a function
\* from repository URLs to [ref, sha].
EmptyMap == <<>>

Absent == [form |-> "absent", deps |-> EmptyMap]

Malformed == [form |-> "malformed", deps |-> EmptyMap]

NullDeps == [form |-> "null", deps |-> EmptyMap]

OnDisk(deps) == [form |-> "map", deps |-> deps]

Dep(ref, sha) == [ref |-> ref, sha |-> sha]

\* The LockFile in memory is [nil, deps]: nil is whether Dependencies is the
\* nil map.
LockFile(deps) == [nil |-> FALSE, deps |-> deps]

\* lockFile.Dependencies[repoURL] = Dependency{Ref: ref, SHA: sha}
Upsert(lockFile, repoURL, ref, sha) ==
    [lockFile EXCEPT !.deps = (repoURL :> Dep(ref, sha)) @@ @]

\* A file that json.Unmarshal rejects after it has decoded the entries deps
\* into the LockFile it was given.
MalformedAfter(deps) == [form |-> "malformed", deps |-> deps]

\* A faulty loadLockFile: the LockFile that json.Unmarshal was filling is
\* returned after the warning.
loadLockFileKeepsParsed(disk) ==
    IF disk.form = "absent" THEN [lockFile |-> LockFile(EmptyMap), warned |-> FALSE]
    ELSE IF disk.form = "malformed" THEN [lockFile |-> LockFile(disk.deps), warned |-> TRUE]
    ELSE IF disk.form = "null"
    THEN [lockFile |-> [nil |-> TRUE, deps |-> EmptyMap], warned |-> FALSE]
    ELSE [lockFile |-> LockFile(disk.deps), warned |-> FALSE]

\* loadLockFile: returns [lockFile, warned].
loadLockFile(disk) ==
    IF disk.form = "absent" THEN [lockFile |-> LockFile(EmptyMap), warned |-> FALSE]
    ELSE IF disk.form = "malformed" THEN [lockFile |-> LockFile(EmptyMap), warned |-> TRUE]
    ELSE IF disk.form = "null"
    THEN [lockFile |-> [nil |-> TRUE, deps |-> EmptyMap], warned |-> FALSE]
    ELSE [lockFile |-> LockFile(disk.deps), warned |-> FALSE]

\* saveLockFile: json.MarshalIndent then os.WriteFile, which opens the file
\* with O_TRUNC and writes.  how = "ok": written; "open": the file could not
\* be opened and is as before; "torn": the write failed after the truncation.
saveLockFile(disk, lockFile, how) ==
    IF how = "ok"
    THEN [disk |-> IF lockFile.nil THEN NullDeps ELSE OnDisk(lockFile.deps), err |-> FALSE]
    ELSE IF how = "open" THEN [disk |-> disk, err |-> TRUE]
    ELSE [disk |-> Malformed, err |-> TRUE]

\* A faulty checkDependency: a path with nothing below it counts as missing.
checkDependencyNonEmpty(fs, repoURL) ==
    IF \E n \in fs : /\ IsPrefix(getDepPath(repoURL), n.path)
                     /\ n.path # getDepPath(repoURL)
    THEN "ok"
    ELSE "missing"

\* checkDependency: os.Stat of the dependency's path.
checkDependency(fs, repoURL) ==
    IF ~Exists(fs, getDepPath(repoURL)) THEN "missing" ELSE "ok"

\* ---------------------------------------------------------------- universe

K1 == <<"github.com", "o", "r">>
\* The same repository, written with a trailing slash.
K1s == <<"github.com", "o", "r", "">>
K2 == <<"github.com", "o", "q">>
\* Not a github.com URL: parseGitHubURL rejects it.
Kbad == <<"gitlab.com", "o", "r">>

\* The arguments of `deps get`: a spec is the sequence of its "@"-parts.
GetSpecs == {<<K1>>, <<K2, "v1">>, <<Kbad>>, <<K1, "v1", "v2">>}

\* The arguments of `deps update`: <<>> is "no argument".
UpdateArgs == {<<>>, K1}

\* The lock files the program may find when it is first run: none, one that
\* is not JSON, one with a null mapping, one as `deps get` wrote it elsewhere
\* (the trees are not checked in), and two written by hand: one with a key
\* that is no GitHub URL and a short identifier, one with an empty ref.
InitLocks ==
    {Absent, Malformed, NullDeps,
     OnDisk((K1 :> Dep("main", ShaA)) @@ (K2 :> Dep("v1", ShaA))),
     OnDisk((Kbad :> Dep("main", ShaA)) @@ (K2 :> Dep("v1", ShaShort))),
     OnDisk(K1 :> Dep("", ShaA))}

\* ---------------------------------------------------------------- reports

\* What a command reports for one dependency: the outcome, the identifier and
\* ref it resolved, the remote calls it made, and the identifier whose
\* archive it extracted without error ("" when none).
Report(status, sha, ref, calls, extracted) ==
    [status |-> status, sha |-> sha, ref |-> ref, calls |-> calls,
     extracted |-> extracted]

\* ---------------------------------------------------------------- handlers

\* A faulty updateDownloaded: the entry is assigned before the error of the
\* download is looked at.
updateDownloadedEager(repoURL, dep, lockFile, r, d) ==
    [updated  |-> ~d.err,
     lockFile |-> Upsert(lockFile, repoURL, dep.ref, r.sha),
     fs       |-> d.fs,
     panic    |-> FALSE,
     rep      |-> IF d.err
                  THEN Report("download_error", r.sha, r.resolvedRef,
                              r.calls \o d.calls, "")
                  ELSE Report("updated", r.sha, r.resolvedRef, r.calls \o d.calls,
                              r.sha)]

\* updateDependency from its download on: d is what downloadRepo returned
\* for the identifier r.sha that resolveRef gave.
updateDownloaded(repoURL, dep, lockFile, r, d) ==
    IF d.err
    THEN [updated |-> FALSE, lockFile |-> lockFile, fs |-> d.fs, panic |-> FALSE,
          rep |-> Report("download_error", r.sha, r.resolvedRef, r.calls \o d.calls, "")]
    ELSE [updated |-> TRUE, lockFile |-> Upsert(lockFile, repoURL, dep.ref, r.sha),
          fs |-> d.fs, panic |-> FALSE,
          rep |-> Report("updated", r.sha, r.resolvedRef, r.calls \o d.calls, r.sha)]

\* A faulty updateDependency: an entry that has no update is downloaded
\* again when its tree is not on disk.
updateDependencyRestoring(repoURL, dep, lockFile, fs, rem, env) ==
    LET same == [updated |-> FALSE, lockFile |-> lockFile, fs |-> fs, panic |-> FALSE,
                 rep |-> Report("error", "", "", <<>>, "")]
        Resolved(r) ==
            IF r.err THEN [same EXCEPT !.rep = Report("resolve_error", "", "", r.calls, "")]
            ELSE IF r.sha = dep.sha
            THEN IF AbbrevPanics(dep.sha)
                 THEN [same EXCEPT !.panic = TRUE,
                                   !.rep = Report("panic", r.sha, r.resolvedRef, r.calls, "")]
                 ELSE IF Exists(fs, getDepPath(repoURL))
                 THEN [same EXCEPT
                          !.rep = Report("noupdate", r.sha, r.resolvedRef, r.calls, "")]
                 ELSE LET d == downloadRepo(fs, r.sha, repoURL, env)
                      IN  [same EXCEPT
                             !.fs = d.fs,
                             !.rep = Report("noupdate", r.sha, r.resolvedRef,
                                            r.calls \o d.calls, "")]
            ELSE IF AbbrevPanics(dep.sha) \/ AbbrevPanics(r.sha)
            THEN [same EXCEPT !.panic = TRUE,
                              !.rep = Report("panic", r.sha, r.resolvedRef, r.calls, "")]
            ELSE updateDownloaded(repoURL, dep, lockFile, r,
                                  downloadRepo(fs, r.sha, repoURL, env))
    IN  IF parseGitHubURL(repoURL).err
        THEN [same EXCEPT !.rep = Report("parse_error", "", "", <<>>, "")]
        ELSE Resolved(resolveRef(rem, dep.ref, env))

\* updateDependency(repoURL, dep, lockFile): returns
\* [updated, lockFile, fs, rep, panic].
updateDependency(repoURL, dep, lockFile, fs, rem, env) ==
    LET same == [updated |-> FALSE, lockFile |-> lockFile, fs |-> fs, panic |-> FALSE,
                 rep |-> Report("error", "", "", <<>>, "")]
        Resolved(r) ==
            IF r.err THEN [same EXCEPT !.rep = Report("resolve_error", "", "", r.calls, "")]
            ELSE IF r.sha = dep.sha
            THEN IF AbbrevPanics(dep.sha)
                 THEN [same EXCEPT !.panic = TRUE,
                                   !.rep = Report("panic", r.sha, r.resolvedRef, r.calls, "")]
                 ELSE [same EXCEPT
                          !.rep = Report("noupdate", r.sha, r.resolvedRef, r.calls, "")]
            ELSE IF AbbrevPanics(dep.sha) \/ AbbrevPanics(r.sha)
            THEN [same EXCEPT !.panic = TRUE,
                              !.rep = Report("panic", r.sha, r.resolvedRef, r.calls, "")]
            ELSE updateDownloaded(repoURL, dep, lockFile, r,
                                  downloadRepo(fs, r.sha, repoURL, env))
    IN  IF parseGitHubURL(repoURL).err
        THEN [same EXCEPT !.rep = Report("parse_error", "", "", <<>>, "")]
        ELSE Resolved(resolveRef(rem, dep.ref, env))

\* A faulty saveIfUpdated: the lock file is saved as soon as an entry is
\* updated, and again after every later entry.
saveIfUpdatedEach(disk, lockFile, updated, last, how) ==
    IF updated
    THEN [disk |-> saveLockFile(disk, lockFile, how).disk,
          err  |-> saveLockFile(disk, lockFile, how).err, saves |-> 1]
    ELSE [disk |-> disk, err |-> FALSE, saves |-> 0]

\* handleUpdate after an updateDependency: the lock file is saved after the
\* last one, and only if some entry was updated.  Returns [disk, err, saves].
saveIfUpdated(disk, lockFile, updated, last, how) ==
    IF last /\ updated
    THEN [disk |-> saveLockFile(disk, lockFile, how).disk,
          err  |-> saveLockFile(disk, lockFile, how).err, saves |-> 1]
    ELSE [disk |-> disk, err |-> FALSE, saves |-> 0]

\* handleGet(repoSpec): returns [disk, fs, exit, key, rep, saves, lockFile].
\* exit is the exit status: 0, 1 (os.Exit(1)) or 2 (a panic).
handleGet(disk, fs, rem, repoSpec, env) ==
    LET s    == parseGitHubSpec(repoSpec)
        fail == [disk |-> disk, fs |-> fs, exit |-> 1, key |-> s.repoURL, saves |-> 0,
                 lockFile |-> LockFile(EmptyMap),
                 rep |-> Report("error", "", "", <<>>, "")]
        Saved(r, d, new, sv) ==
            IF sv.err
            THEN [fail EXCEPT !.fs = d.fs, !.disk = sv.disk, !.saves = 1,
                              !.lockFile = new,
                              !.rep = Report("save_error", r.sha, r.resolvedRef,
                                             r.calls \o d.calls, r.sha)]
            ELSE [disk |-> sv.disk, fs |-> d.fs, exit |-> 0, key |-> s.repoURL,
                  saves |-> 1, lockFile |-> new,
                  rep |-> Report("added", r.sha, r.resolvedRef, r.calls \o d.calls,
                                 r.sha)]
        Loaded(r, d, l, new) ==
            IF l.nil
            THEN \* assignment to an entry in a nil map
                 [fail EXCEPT !.fs = d.fs, !.exit = 2, !.lockFile = l,
                              !.rep = Report("panic", r.sha, r.resolvedRef,
                                             r.calls \o d.calls, r.sha)]
            ELSE Saved(r, d, new, saveLockFile(disk, new, env.save))
        Downloaded(r, d) ==
            IF d.err
            THEN [fail EXCEPT !.fs = d.fs,
                              !.rep = Report("download_error", r.sha, r.resolvedRef,
                                             r.calls \o d.calls, "")]
            ELSE Loaded(r, d, loadLockFile(disk).lockFile,
                        Upsert(loadLockFile(disk).lockFile, s.repoURL,
                               IF s.ref = "" THEN r.resolvedRef ELSE s.ref, r.sha))
        Resolved(r) ==
            IF r.err THEN [fail EXCEPT !.rep = Report("resolve_error", "", "", r.calls, "")]
            ELSE IF AbbrevPanics(r.sha)
            THEN [fail EXCEPT !.exit = 2,
                              !.rep = Report("panic", r.sha, r.resolvedRef, r.calls, "")]
            ELSE Downloaded(r, downloadRepo(fs, r.sha, s.repoURL, env))
    IN  IF s.err THEN [fail EXCEPT !.rep = Report("spec_error", "", "", <<>>, "")]
        ELSE IF parseGitHubURL(s.repoURL).err
        THEN [fail EXCEPT !.rep = Report("parse_error", "", "", <<>>, "")]
        ELSE Resolved(resolveRef(rem, s.ref, env))

\* The body of the loop of handleCheck for one entry: [status, panic].
checkEntry(fs, repoURL, dep) ==
    LET status == checkDependency(fs, repoURL)
    IN  [status |-> status, panic |-> status = "ok" /\ AbbrevPanics(dep.sha)]

\* A faulty installEntry: the entry is fetched whether or not its path exists.
installEntryAlways(fs, repoURL, dep, env) ==
    LET Downloaded(d) ==
            [fs |-> d.fs, panic |-> FALSE,
             rep |-> IF d.err THEN Report("download_error", dep.sha, "", d.calls, "")
                     ELSE Report("installed", dep.sha, "", d.calls, dep.sha)]
    IN  IF AbbrevPanics(dep.sha)
        THEN [fs |-> fs, panic |-> TRUE, rep |-> Report("panic", "", "", <<>>, "")]
        ELSE IF parseGitHubURL(repoURL).err
        THEN [fs |-> fs, panic |-> FALSE, rep |-> Report("parse_error", "", "", <<>>, "")]
        ELSE Downloaded(downloadRepo(fs, dep.sha, repoURL, env))

\* The body of the loop of handleInstall for one entry: [fs, rep, panic].
installEntry(fs, repoURL, dep, env) ==
    LET Downloaded(d) ==
            IF d.err
            THEN [fs |-> d.fs, panic |-> FALSE,
                  rep |-> Report("download_error", dep.sha, "", d.calls, "")]
            ELSE [fs |-> d.fs, panic |-> FALSE,
                  rep |-> Report("installed", dep.sha, "", d.calls, dep.sha)]
    IN  IF AbbrevPanics(dep.sha)
        THEN [fs |-> fs, panic |-> TRUE, rep |-> Report("panic", "", "", <<>>, "")]
        ELSE IF checkDependency(fs, repoURL) = "ok"
        THEN [fs |-> fs, panic |-> FALSE,
              rep |-> Report("already_installed", "", "", <<>>, "")]
        ELSE IF parseGitHubURL(repoURL).err
        THEN [fs |-> fs, panic |-> FALSE, rep |-> Report("parse_error", "", "", <<>>, "")]
        ELSE Downloaded(downloadRepo(fs, dep.sha, repoURL, env))

\* ---------------------------------------------------------------- state

VARIABLES
    lockDisk,   \* the content of .deps.lock
    fs,         \* the file system: the trees under .deps
    remote,     \* the refs of the remote
    pc,         \* "idle", the command whose loop runs, or "done"
    cmd,        \* the command of the invocation: "get", "check", "install", "update"
    arg,        \* its argument
    lockFile,   \* the LockFile the invocation loaded
    todo,       \* the entries its range loop has not visited yet
    updated,    \* handleUpdate's flag
    allGood,    \* handleCheck's flag
    out,        \* what the invocation reported, per repository URL
    exit,       \* the exit status of the invocation
    saves,      \* how many times the invocation called saveLockFile
    prev,       \* whether the previous invocation was an update of every entry
                \* that found no update, the remote being since as it was
    probe       \* a single call of one function, with its arguments and its
                \* result: used by the specifications of the functions alone

vars == <<lockDisk, fs, remote, pc, cmd, arg, lockFile, todo, updated, allGood,
          out, exit, saves, prev, probe>>

NoPrev == FALSE

NoProbe == [fn |-> "none"]

\* No invocation is running and none has run.
Quiet ==
    /\ fs = {}
    /\ pc = "idle"
    /\ cmd = "none"
    /\ arg = <<>>
    /\ lockFile = LockFile(EmptyMap)
    /\ todo = {}
    /\ updated = FALSE
    /\ allGood = TRUE
    /\ out = EmptyMap
    /\ exit = 0
    /\ saves = 0
    /\ prev = NoPrev

Init ==
    /\ lockDisk \in InitLocks
    /\ remote \in RemoteStates
    /\ Quiet
    /\ probe = NoProbe

\* The invocation starts: command c with argument a.
Begin(c, a) ==
    /\ pc = "idle"
    /\ cmd' = c
    /\ arg' = a
    /\ out' = EmptyMap
    /\ UNCHANGED <<remote, prev, probe>>

\* The invocation ends with exit status e.
End(e) ==
    /\ pc' = "done"
    /\ exit' = e
    /\ todo' = {}

\* deps get <spec> for a spec of specs: handleGet, from its first line to
\* its last.
GetOf(specs) ==
    \E spec \in specs, env \in Envs :
        \E g \in {handleGet(lockDisk, fs, remote, spec, env)} :
            /\ pc = "idle"
            /\ cmd' = "get"
            /\ arg' = spec
            /\ out' = (g.key :> g.rep)
            /\ lockDisk' = g.disk
            /\ fs' = g.fs
            /\ lockFile' = g.lockFile
            /\ saves' = g.saves
            /\ End(g.exit)
            /\ UNCHANGED <<remote, updated, allGood, prev, probe>>

Get == GetOf(GetSpecs)

\* handleCheck up to its loop: nothing to check when the lock file is empty.
CheckStart ==
    LET l == loadLockFile(lockDisk).lockFile
    IN  /\ Begin("check", <<>>)
        /\ lockFile' = l
        /\ IF DOMAIN l.deps = {}
           THEN End(0)
           ELSE /\ pc' = "check"
                /\ todo' = DOMAIN l.deps
                /\ UNCHANGED exit
        /\ UNCHANGED <<lockDisk, fs, updated, allGood, saves>>

\* One iteration of the loop of handleCheck, and what follows the loop after
\* the last one.
CheckEntry ==
    \E repoURL \in todo :
        \E c \in {checkEntry(fs, repoURL, lockFile.deps[repoURL])} :
            /\ pc = "check"
            /\ out' = (repoURL :> Report(IF c.panic THEN "panic" ELSE c.status,
                                         "", "", <<>>, "")) @@ out
            /\ allGood' = (allGood /\ c.status = "ok")
            /\ IF c.panic THEN End(2)
               ELSE IF todo = {repoURL} THEN End(0)
               ELSE /\ todo' = todo \ {repoURL}
                    /\ UNCHANGED <<pc, exit>>
            /\ UNCHANGED <<lockDisk, fs, remote, cmd, arg, lockFile, updated, saves,
                           prev, probe>>

\* A faulty InstallStart: the lock file is saved back once it is loaded.
InstallStartSaving ==
    LET l == loadLockFile(lockDisk).lockFile
    IN  /\ Begin("install", <<>>)
        /\ lockFile' = l
        /\ lockDisk' = saveLockFile(lockDisk, l, "ok").disk
        /\ saves' = 1
        /\ IF DOMAIN l.deps = {}
           THEN End(0)
           ELSE /\ pc' = "install"
                /\ todo' = DOMAIN l.deps
                /\ UNCHANGED exit
        /\ UNCHANGED <<fs, updated, allGood>>

\* handleInstall up to its loop.
InstallStart ==
    LET l == loadLockFile(lockDisk).lockFile
    IN  /\ Begin("install", <<>>)
        /\ lockFile' = l
        /\ IF DOMAIN l.deps = {}
           THEN End(0)
           ELSE /\ pc' = "install"
                /\ todo' = DOMAIN l.deps
                /\ UNCHANGED exit
        /\ UNCHANGED <<lockDisk, fs, updated, allGood, saves>>

\* One iteration of the loop of handleInstall.
InstallEntry ==
    \E repoURL \in todo, env \in InstallEnvs :
        \E i \in {installEntry(fs, repoURL, lockFile.deps[repoURL], env)} :
            /\ pc = "install"
            /\ out' = (repoURL :> i.rep) @@ out
            /\ fs' = i.fs
            /\ IF i.panic THEN End(2)
               ELSE IF todo = {repoURL} THEN End(0)
               ELSE /\ todo' = todo \ {repoURL}
                    /\ UNCHANGED <<pc, exit>>
            /\ UNCHANGED <<lockDisk, remote, cmd, arg, lockFile, updated, allGood,
                           saves, prev, probe>>

\* handleUpdate up to the first updateDependency.
UpdateStart ==
    \E specificRepo \in UpdateArgs :
        LET l == loadLockFile(lockDisk).lockFile
        IN  /\ Begin("update", specificRepo)
            /\ lockFile' = l
            /\ IF DOMAIN l.deps = {}
               THEN End(0)
               ELSE IF specificRepo # <<>> /\ specificRepo \notin DOMAIN l.deps
               THEN End(1)
               ELSE /\ pc' = "update"
                    /\ todo' = IF specificRepo # <<>> THEN {specificRepo}
                               ELSE DOMAIN l.deps
                    /\ UNCHANGED exit
            /\ UNCHANGED <<lockDisk, fs, updated, allGood, saves>>

\* One updateDependency of handleUpdate and, after the last one, the save
\* that ends handleUpdate.
UpdateEntry ==
    \E repoURL \in todo, env \in Envs :
        \E u \in {updateDependency(repoURL, lockFile.deps[repoURL], lockFile, fs,
                                    remote, env)} :
        \E sv \in {saveIfUpdated(lockDisk, u.lockFile, updated \/ u.updated,
                                  todo = {repoURL}, env.save)} :
            /\ pc = "update"
            /\ out' = (repoURL :> u.rep) @@ out
            /\ fs' = u.fs
            /\ lockFile' = u.lockFile
            /\ updated' = (updated \/ u.updated)
            /\ IF u.panic
               THEN End(2) /\ UNCHANGED <<lockDisk, saves>>
               ELSE /\ lockDisk' = sv.disk
                    /\ saves' = saves + sv.saves
                    /\ IF todo = {repoURL}
                       THEN End(IF sv.err THEN 1 ELSE 0)
                       ELSE /\ todo' = todo \ {repoURL}
                            /\ UNCHANGED <<pc, exit>>
            /\ UNCHANGED <<remote, cmd, arg, allGood, prev, probe>>

\* The process has exited; the next invocation starts from scratch.
Return ==
    /\ pc = "done"
    /\ pc' = "idle"
    /\ prev' = (/\ cmd = "update"
                 /\ exit = 0
                 /\ DOMAIN out = DOMAIN lockFile.deps
                 /\ \A k \in DOMAIN out : out[k].status = "noupdate")
    /\ cmd' = "none"
    /\ arg' = <<>>
    /\ lockFile' = LockFile(EmptyMap)
    /\ updated' = FALSE
    /\ allGood' = TRUE
    /\ out' = EmptyMap
    /\ exit' = 0
    /\ saves' = 0
    /\ UNCHANGED <<lockDisk, fs, remote, todo, probe>>

\* The remote moves between two invocations: a push, a new branch.
RemoteChange ==
    \E r \in RemoteStates \ {remote} :
        /\ pc = "idle"
        /\ remote' = r
        /\ prev' = NoPrev
        /\ UNCHANGED <<lockDisk, fs, pc, cmd, arg, lockFile, todo, updated, allGood,
                       out, exit, saves, probe>>

Next ==
    \/ Get
    \/ CheckStart
    \/ CheckEntry
    \/ InstallStart
    \/ InstallEntry
    \/ UpdateStart
    \/ UpdateEntry
    \/ Return
    \/ RemoteChange

Spec == Init /\ [][Next]_vars

\* ------------------------------------------- one repository, two keys

\* deps get of one repository written with and without a trailing slash,
\* from an empty working directory.
KeySpecs == {<<K1>>, <<K1s>>, <<K1, "v1">>, <<K1s, "v1">>}

KeyInit ==
    /\ lockDisk = Absent
    /\ remote \in RemoteStates
    /\ Quiet
    /\ probe = NoProbe

GetKey == GetOf(KeySpecs)

KeyNext == GetKey \/ Return \/ RemoteChange

KeySpec == KeyInit /\ [][KeyNext]_vars

\* ------------------------------------------------ the resolver, alone

\* resolveRef and updateDependency as functions: a state holds one call, its
\* arguments drawn from the sets below, and, once made, its result.
ProbeRemotes == {R0, R1, R2}

ProbeRefs == {"", "main", "v1", "gone", ShaA, ShaC, ShaUpper}

ProbeDeps == {Dep(ShaA, ShaA), Dep(ShaA, ShaB), Dep("main", ShaA)}

LookupEnvs == {e \in Envs : e.dl = "ok" /\ e.save = "ok"}

ResolveInit ==
    /\ lockDisk = Absent
    /\ remote \in ProbeRemotes
    /\ Quiet
    /\ probe \in [fn : {"resolveRef"}, dep : {Dep(r, "") : r \in ProbeRefs},
                   env : LookupEnvs, done : {FALSE}, res : {NoRef},
                   carries : {<<>>}]
                 \cup [fn : {"updateDependency"}, dep : ProbeDeps,
                       env : Envs, done : {FALSE}, res : {NoRef},
                       carries : {<<>>}]

Untouched ==
    UNCHANGED <<lockDisk, fs, remote, pc, cmd, arg, lockFile, todo, updated,
                allGood, out, exit, saves, prev>>

\* resolveRef(owner, repo, probe.dep.ref) against the remote.
ResolveCall ==
    /\ probe.fn = "resolveRef" /\ ~probe.done
    /\ probe' = [probe EXCEPT
                    !.done = TRUE,
                    !.res = resolveRef(remote, probe.dep.ref, probe.env),
                    !.carries = IF /\ probe.dep.ref # ""
                                   /\ ~IsCommitSHA(probe.dep.ref)
                                   /\ resolveRef(remote, probe.dep.ref, probe.env).err
                                THEN notResolved(parseGitHubURL(K1).owner,
                                                 parseGitHubURL(K1).repo,
                                                 probe.dep.ref)
                                ELSE <<>>]
    /\ Untouched

\* updateDependency(K1, probe.dep, lockFile) for a lock file that holds the
\* entry alone, nothing being on disk.
UpdateCall ==
    /\ probe.fn = "updateDependency" /\ ~probe.done
    /\ probe' = [probe EXCEPT
                    !.done = TRUE,
                    !.res = updateDependency(K1, probe.dep, LockFile(K1 :> probe.dep),
                                             fs, remote, probe.env)]
    /\ Untouched

ResolveNext == ResolveCall \/ UpdateCall

ResolveSpec == ResolveInit /\ [][ResolveNext]_vars

\* ---------------------------------------------- the extraction, alone

\* extractTarball as a function: a state holds one call, the stream, the
\* tree it finds at the destination and what the file system answers.
MaxEntries == 3

DestPath == getDepPath(K1)

Wrapper == "r-aaaaaaa"

Symlink(name) == [name |-> name, typeflag |-> "symlink", data |-> <<>>]

\* The entries of a wrapped archive: the wrapper's own directory entry,
\* written with and without its trailing "/", files and a directory below
\* it, a symbolic link, and the global header.
WrappedEntries ==
    {Folder(<<Wrapper, "">>), Folder(<<Wrapper>>),
     File(<<Wrapper, "a.txt">>, <<1, 2>>),
     File(<<Wrapper, "lib", "l.txt">>, <<5>>),
     Folder(<<Wrapper, "lib", "">>),
     Symlink(<<Wrapper, "ln">>),
     PaxHeader}

\* The archives: up to MaxEntries distinct entries, in every order.
Archives ==
    {a \in UNION {[1..n -> WrappedEntries] : n \in 0..MaxEntries} :
        \A i, j \in DOMAIN a : a[i] = a[j] => i = j}

OldDir(path) == [path |-> path, kind |-> "dir", data |-> <<>>]

OldFile(path, data) == [path |-> path, kind |-> "file", data |-> data]

\* What an earlier run left below the destination.
OldContent ==
    {OldDir(DestPath \o <<"old">>),
     OldFile(DestPath \o <<"old", "x.txt">>, <<9>>),
     OldFile(DestPath \o <<"a.txt">>, <<9, 9, 9>>)}

\* The tree before the call: nothing, the destination with old content, the
\* destination with a file where the archive has a directory, or a regular
\* file at the destination itself.
PriorTrees ==
    LET above == {OldDir(SubSeq(DestPath, 1, i)) : i \in 1..Len(DestPath)}
    IN  {{},
         above \cup OldContent,
         above \cup {OldFile(DestPath \o <<"lib">>, <<9>>)},
         {n \in above : n.path # DestPath} \cup {OldFile(DestPath, <<9>>)}}

\* What the call meets: at most one failure.
ExtractFaults == {"none", "remove", "mkdir", "badgzip", "truncated"}

ExtractInit ==
    /\ lockDisk = Absent
    /\ remote = R0
    /\ Quiet
    /\ probe \in [fn : {"extractTarball"}, fs : PriorTrees, entries : Archives,
                   fault : ExtractFaults, done : {FALSE},
                   res : {[fs |-> {}, err |-> FALSE]}]

\* extractTarball(r, DestPath) on the tree probe.fs.
ExtractCall ==
    /\ probe.fn = "extractTarball" /\ ~probe.done
    /\ probe' = [probe EXCEPT
                    !.done = TRUE,
                    !.res = extractTarballOn(probe.fs,
                                [gz |-> probe.fault # "badgzip",
                                 entries |-> probe.entries,
                                 trunc |-> probe.fault = "truncated"],
                                DestPath,
                                probe.fault # "mkdir",
                                probe.fault # "remove")]
    /\ Untouched

ExtractNext == ExtractCall

ExtractSpec == ExtractInit /\ [][ExtractNext]_vars

\* ------------------------------------ the extraction of any archive

\* The entries of an archive that need not be wrapped: a file at the top
\* level, a file under a directory without a hyphen, files under the
\* wrapper, two of them with one name, a file under another hyphenated
\* directory, a name that climbs out of the wrapper, the wrapper's own
\* entry and the global header.
AnyEntries ==
    {File(<<"README">>, <<4>>),
     File(<<"docs", "d.txt">>, <<6>>),
     File(<<Wrapper, "a.txt">>, <<1, 2>>),
     File(<<Wrapper, "a.txt">>, <<7>>),
     File(<<"x-y", "z.txt">>, <<8>>),
     File(<<Wrapper, "..", "..", "e.txt">>, <<3>>),
     Folder(<<Wrapper, "">>),
     PaxHeader}

AnyArchives ==
    {a \in UNION {[1..n -> AnyEntries] : n \in 0..MaxEntries} :
        \A i, j \in DOMAIN a : a[i] = a[j] => i = j}

ArchiveInit ==
    /\ lockDisk = Absent
    /\ remote = R0
    /\ Quiet
    /\ probe \in [fn : {"extractTarball"},
                   fs : {t \in PriorTrees : ~IsFile(t, DestPath \o <<"lib">>)},
                   entries : AnyArchives,
                   fault : {"none", "truncated"}, done : {FALSE},
                   res : {[fs |-> {}, err |-> FALSE]}]

ArchiveSpec == ArchiveInit /\ [][ExtractNext]_vars

\* ----------------------------------------------- the lock file, alone

\* loadLockFile and saveLockFile as functions: a state holds one call, the
\* .deps.lock it finds and, for a save, the LockFile in memory and how the
\* write ends.
ProbeKeys == {K1, K2, Kbad}

ProbeEntries == {Dep("", ShaA), Dep("main", ShaA), Dep("v1", ShaC), Dep("main", ShaShort)}

\* The dependencies mappings: any entries for any of the keys.
ProbeMaps ==
    UNION {[ks -> ProbeEntries] : ks \in SUBSET ProbeKeys}

LoadDisks ==
    {Absent, NullDeps} \cup {OnDisk(d) : d \in ProbeMaps}
                      \cup {MalformedAfter(d) : d \in ProbeMaps}

SaveDisks == {Absent, Malformed, NullDeps, OnDisk(K1 :> Dep("main", ShaA))}

SaveLockFiles ==
    {LockFile(EmptyMap), [nil |-> TRUE, deps |-> EmptyMap],
     LockFile(K1 :> Dep("main", ShaA)), LockFile(K1 :> Dep("main", ShaB)),
     LockFile((K1 :> Dep("main", ShaB)) @@ (K2 :> Dep("v1", ShaC)))}

NoResult == [disk |-> Absent, err |-> FALSE, lockFile |-> LockFile(EmptyMap),
             warned |-> FALSE]

LockInit ==
    /\ lockDisk = Absent
    /\ remote = R0
    /\ Quiet
    /\ probe \in [fn : {"loadLockFile"}, disk : LoadDisks,
                   lockFile : {LockFile(EmptyMap)}, how : {"ok"},
                   done : {FALSE}, res : {NoResult}]
                 \cup [fn : {"saveLockFile"}, disk : SaveDisks,
                       lockFile : SaveLockFiles, how : SaveOutcomes,
                       done : {FALSE}, res : {NoResult}]

\* loadLockFile() with probe.disk as .deps.lock.
LoadCall ==
    /\ probe.fn = "loadLockFile" /\ ~probe.done
    /\ probe' = [probe EXCEPT
                    !.done = TRUE,
                    !.res = [NoResult EXCEPT
                               !.disk = probe.disk,
                               !.lockFile = loadLockFile(probe.disk).lockFile,
                               !.warned = loadLockFile(probe.disk).warned]]
    /\ Untouched

\* saveLockFile(probe.lockFile) with probe.disk as .deps.lock.
SaveCall ==
    /\ probe.fn = "saveLockFile" /\ ~probe.done
    /\ probe' = [probe EXCEPT
                    !.done = TRUE,
                    !.res = [NoResult EXCEPT
                               !.disk = saveLockFile(probe.disk, probe.lockFile, probe.how).disk,
                               !.err = saveLockFile(probe.disk, probe.lockFile, probe.how).err]]
    /\ Untouched

LockNext == LoadCall \/ SaveCall

LockSpec == LockInit /\ [][LockNext]_vars

\* -------------------------------------------------------------- properties

Keys == {K1, K1s, K2, Kbad}

NoEntry == Dep("", "")

\* The entry of key k in a dependencies mapping, NoEntry when it has none.
EntryOf(deps, k) == IF k \in DOMAIN deps THEN deps[k] ELSE NoEntry

\* What lies below the materialized path of key k.
Tree(f, k) == {n \in f : IsPrefix(getDepPath(k), n.path) /\ n.path # getDepPath(k)}

\* C1: after a get that completes successfully, the persisted lock file holds
\* an entry for the key whose sha is the identifier resolved in that call,
\* and the materialized tree of the key is not empty.
C1_GetLeavesEntryAndTree ==
    (pc = "done" /\ cmd = "get" /\ exit = 0) =>
        \A k \in DOMAIN out :
            /\ lockDisk.form = "map"
            /\ EntryOf(lockDisk.deps, k).sha = out[k].sha
            /\ Tree(fs, k) # {}

\* The outcomes of a step that failed before its entry could be written.
Failures == {"spec_error", "parse_error", "resolve_error", "download_error"}

\* The reports o say that, in this invocation, sha was resolved for key k and
\* its archive extracted without error.
Fetched(o, k, sha) == k \in DOMAIN o /\ o[k].sha = sha /\ o[k].extracted = sha

\* The mapping new holds for k an entry that old did not hold.
Written(new, old, k) == k \in DOMAIN new /\ new[k] # EntryOf(old, k)

\* The LockFile in memory before a step: the one loaded, or the one a step
\* of get is about to load.
LockFileBefore == IF pc = "idle" THEN loadLockFile(lockDisk).lockFile ELSE lockFile

MemBefore == LockFileBefore.deps

\* C2: in every step, an entry is written, in memory or to .deps.lock, only
\* with an identifier that this invocation resolved and extracted for that
\* key; and a step of get or update that fails for its key (spec, URL,
\* resolution, download, extraction) leaves the entry of that key as it was:
\* get writes nothing at all, update leaves the entry in memory and the one
\* in a lock file it saves as they were.
C2_WrittenOnlyAfterFetch ==
    [][/\ \A k \in Keys :
            /\ Written(lockFile'.deps, MemBefore, k)
                  => Fetched(out', k, lockFile'.deps[k].sha)
            /\ Written(lockDisk'.deps, lockDisk.deps, k)
                  => Fetched(out', k, lockDisk'.deps[k].sha)
       /\ \A k \in DOMAIN out' :
            (k \notin DOMAIN out /\ out'[k].status \in Failures) =>
                /\ cmd' = "get" => lockDisk' = lockDisk /\ saves' = 0
                /\ cmd' = "update" =>
                      /\ EntryOf(lockFile'.deps, k) = EntryOf(lockFile.deps, k)
                      /\ lockDisk'.form = "map" =>
                            EntryOf(lockDisk'.deps, k) = EntryOf(lockDisk.deps, k)
      ]_vars

\* An update over two entries has ended: the download failed for one, whose
\* entry is saved as it was though a newer identifier was resolved, and the
\* other was updated.
C2_Witness ==
    /\ pc = "done" /\ cmd = "update" /\ exit = 0 /\ saves = 1
    /\ \E k1, k2 \in DOMAIN out :
          /\ out[k1].status = "download_error"
          /\ out[k2].status = "updated"
          /\ lockDisk.deps[k1].sha # out[k1].sha
          /\ lockDisk.deps[k2].sha = out[k2].extracted

\* A step that meets no failure.
OkEnv == [lookup |-> "all", dl |-> "ok", lost |-> 1, save |-> "ok"]

\* The tree that the whole archive of sha gives for key k.
Content(k, sha) == Tree(downloadRepo({}, sha, k, OkEnv).fs, k)

\* C3: between invocations, every key of the persisted lock file whose
\* materialized tree holds content holds the content of the identifier that
\* its entry records.
C3_TreeMatchesEntry ==
    (pc = "idle" /\ lockDisk.form = "map") =>
        \A k \in DOMAIN lockDisk.deps :
            Tree(fs, k) # {} => Tree(fs, k) = Content(k, lockDisk.deps[k].sha)

\* C4: no step of install changes .deps.lock or calls saveLockFile, and the
\* LockFile in memory stays the one that was loaded, whatever the lock file
\* holds and however the downloads end.
C4_InstallKeepsLedger ==
    [][cmd' = "install" =>
          /\ lockDisk' = lockDisk
          /\ saves' = 0
          /\ lockFile' = LockFileBefore
      ]_vars

\* An install has ended after one entry was installed and the download of
\* another failed.
C4_Witness ==
    /\ pc = "done" /\ cmd = "install"
    /\ \E k1, k2 \in DOMAIN out :
          /\ out[k1].status = "installed"
          /\ out[k2].status = "download_error"
    /\ lockFile = loadLockFile(lockDisk).lockFile

C6_UpdateIdempotent ==
    (prev /\ cmd = "update") =>
        /\ saves = 0
        /\ \A k \in DOMAIN out : out[k].status # "updated"

C8_UnchangedNotRewritten ==
    [][(pc' # "idle" /\ saves' # saves) =>
          lockFile' # loadLockFile(lockDisk).lockFile
      ]_vars

\* The remote calls of the resolver.
Lookup == {"repo", "branch", "tag"}

Made(calls) == {calls[i] : i \in DOMAIN calls}

C10_EveryEntryProcessed ==
    (pc = "done" /\ (cmd = "install" \/ (cmd = "update" /\ arg = <<>>))) =>
        DOMAIN out = DOMAIN lockFile.deps

\* C11: an entry that update reports updated holds, in memory, the newly
\* resolved identifier and the canonical ref that resolveRef returned for it.
C11_UpdateWritesCanonicalRef ==
    cmd = "update" =>
        \A k \in DOMAIN out :
            out[k].status = "updated" =>
                lockFile.deps[k] = Dep(out[k].ref, out[k].sha)

\* The refs of the universe that are 40 lowercase hexadecimal characters.
Hex40 == {ShaA, ShaB, ShaC}

\* C12: resolveRef on a ref of 40 lowercase hexadecimal characters returns
\* the ref as identifier and as canonical ref and makes no remote call,
\* whatever the remote holds or answers; and updateDependency on an entry
\* whose ref is such an identifier and equals its sha makes no call, changes
\* neither the disk nor the entry and reports no update.
C12_CommitRefResolvesToItself ==
    (probe.done /\ probe.dep.ref \in Hex40) =>
        /\ probe.fn = "resolveRef" =>
              probe.res = [err |-> FALSE, sha |-> probe.dep.ref,
                           resolvedRef |-> probe.dep.ref, calls |-> <<>>]
        /\ (probe.fn = "updateDependency" /\ probe.dep.sha = probe.dep.ref) =>
              /\ ~probe.res.updated
              /\ probe.res.rep.status = "noupdate"
              /\ probe.res.rep.calls = <<>>
              /\ probe.res.fs = fs
              /\ probe.res.lockFile = LockFile(K1 :> probe.dep)

\* updateDependency has returned for an entry whose ref is its identifier,
\* no lookup of the remote being answered.
C12_Witness ==
    /\ probe.done /\ probe.fn = "updateDependency"
    /\ probe.dep = Dep(ShaA, ShaA)
    /\ probe.env.lookup = "no_branch_no_tag"
    /\ probe.res.rep.status = "noupdate"

\* resolveRef has returned for a ref that is neither empty nor an identifier.
ResolvedByName ==
    /\ probe.done /\ probe.fn = "resolveRef"
    /\ probe.dep.ref \notin Hex40 \cup {""}

\* The branch lookup of the call succeeds: it is answered and the name is a branch.
BranchFound == BranchAnswers(probe.env) /\ probe.dep.ref \in DOMAIN remote.branches

\* The tag lookup of the call succeeds: it is answered and the name is a tag.
TagFound == TagAnswers(probe.env) /\ probe.dep.ref \in DOMAIN remote.tags

\* C13: for a ref that is neither empty nor an identifier the first remote
\* call is the branch lookup and a tag lookup only ever follows it; when the
\* branch lookup succeeds, the name being a tag as well or not, the result is
\* the branch's tip with the branch name as canonical ref and no tag lookup
\* is made.
C13_BranchBeforeTag ==
    ResolvedByName =>
        /\ probe.res.calls \in {<<"branch">>, <<"branch", "tag">>}
        /\ BranchFound =>
              probe.res = [err |-> FALSE, sha |-> remote.branches[probe.dep.ref],
                           resolvedRef |-> probe.dep.ref, calls |-> <<"branch">>]

\* "v1" names a branch and a tag of the remote and resolves to the branch.
C13_Witness ==
    /\ ResolvedByName
    /\ probe.dep.ref \in DOMAIN remote.branches \cap DOMAIN remote.tags
    /\ remote.branches[probe.dep.ref] # remote.tags[probe.dep.ref]
    /\ probe.res.sha = remote.branches[probe.dep.ref]
    /\ probe.res.calls = <<"branch">>

\* C14: for a ref that is neither empty nor an identifier, whenever the
\* branch lookup fails, the name being no branch or the lookup not being
\* answered, the tag lookup is made next; and when that lookup finds a tag of
\* exactly that name the call succeeds with the tag's target as identifier
\* and the requested name as canonical ref.
C14_TagAfterFailedBranch ==
    (ResolvedByName /\ ~BranchFound) =>
        /\ probe.res.calls = <<"branch", "tag">>
        /\ TagFound =>
              /\ ~probe.res.err
              /\ probe.res.sha = remote.tags[probe.dep.ref]
              /\ probe.res.resolvedRef = probe.dep.ref

\* The branch lookup of a name that is a branch and a tag is not answered,
\* and the call returns the tag.
C14_Witness ==
    /\ ResolvedByName
    /\ probe.dep.ref \in DOMAIN remote.branches \cap DOMAIN remote.tags
    /\ ~BranchAnswers(probe.env)
    /\ ~probe.res.err
    /\ probe.res.sha = remote.tags[probe.dep.ref]

Range(seq) == {seq[i] : i \in DOMAIN seq}

\* C15: for a ref that is neither empty nor an identifier, when the branch
\* lookup and the tag lookup both fail, the call fails, returns neither an
\* identifier nor a canonical ref, and its error carries the attempted ref
\* and the repository.
C15_RefNotFoundCarriesRefAndRepo ==
    (ResolvedByName /\ ~BranchFound /\ ~TagFound) =>
        /\ probe.res.err
        /\ probe.res.sha = "" /\ probe.res.resolvedRef = ""
        /\ probe.dep.ref \in Range(probe.carries)
        /\ parseGitHubURL(K1).owner \in Range(probe.carries)
        /\ parseGitHubURL(K1).repo \in Range(probe.carries)

\* What holds of the failure: no identifier, no canonical ref, the ref alone
\* in the error.
C15_FailureCarriesRef ==
    (ResolvedByName /\ ~BranchFound /\ ~TagFound) =>
        /\ probe.res.err
        /\ probe.res.sha = "" /\ probe.res.resolvedRef = ""
        /\ probe.carries = <<probe.dep.ref>>

\* The target of entry h of a wrapped archive: the destination joined with
\* the name less its first segment.
Stripped(h) == Clean(DestPath \o Tail(h.name))

\* C16: when extractTarball returns without error on an archive whose
\* entries lie under one wrapper directory, in whatever order they come and
\* with or without an entry for the wrapper itself, every regular file of
\* the archive is a file at the destination joined with its name less the
\* wrapper, holding the entry's bytes when the destination was cleared, every
\* directory of the archive is a directory there, and nothing named after
\* the wrapper appears under the destination.
C16_WrapperStripped ==
    (probe.done /\ ~probe.res.err) =>
        /\ \A i \in DOMAIN probe.entries :
              LET h == probe.entries[i]
              IN  /\ h.typeflag = "reg" =>
                        /\ IsFile(probe.res.fs, Stripped(h))
                        /\ probe.fault # "remove" =>
                              OldFile(Stripped(h), h.data) \in probe.res.fs
                  /\ (h.typeflag = "dir" /\ Stripped(h) # DestPath) =>
                        IsDir(probe.res.fs, Stripped(h))
        /\ ~Exists(probe.res.fs, DestPath \o <<Wrapper>>)

\* A file two levels down comes first, then the wrapper's own entry, then a
\* file: both files are in place.
C16_Witness ==
    /\ probe.done /\ ~probe.res.err
    /\ probe.entries = <<File(<<Wrapper, "lib", "l.txt">>, <<5>>),
                         Folder(<<Wrapper, "">>),
                         File(<<Wrapper, "a.txt">>, <<1, 2>>)>>
    /\ IsFile(probe.res.fs, DestPath \o <<"lib", "l.txt">>)
    /\ IsFile(probe.res.fs, DestPath \o <<"a.txt">>)

\* C17: once extractTarball has returned, with or without an error, nothing
\* that was at the destination before the call is there any more.
C17_DestinationReplaced ==
    probe.done =>
        \A n \in probe.fs :
            (IsPrefix(DestPath, n.path) /\ n # OldDir(DestPath)) => n \notin probe.res.fs

\* What holds of the replacement: when os.RemoveAll succeeds nothing old is left.
C17_ReplacedWhenRemoved ==
    (probe.done /\ probe.fault # "remove") =>
        \A n \in probe.fs :
            (IsPrefix(DestPath, n.path) /\ n # OldDir(DestPath)) => n \notin probe.res.fs

\* C18: loadLockFile always returns a LockFile: the empty one, without a
\* warning, when .deps.lock is absent, and the empty one, with a warning,
\* when .deps.lock is malformed, whatever entries were decoded before the
\* error.
C18_LoadNeverFails ==
    (probe.done /\ probe.fn = "loadLockFile") =>
        /\ probe.res.lockFile \in {LockFile(probe.disk.deps), LockFile(EmptyMap),
                                  [nil |-> TRUE, deps |-> EmptyMap]}
        /\ probe.disk.form = "absent" =>
              probe.res.lockFile = LockFile(EmptyMap) /\ ~probe.res.warned
        /\ probe.disk.form = "malformed" =>
              probe.res.lockFile = LockFile(EmptyMap) /\ probe.res.warned

\* A file that breaks after two entries were decoded has been loaded.
C18_Witness ==
    /\ probe.done /\ probe.fn = "loadLockFile"
    /\ probe.disk.form = "malformed"
    /\ DOMAIN probe.disk.deps = {K1, K2}
    /\ probe.res.warned
    /\ probe.res.lockFile.deps = EmptyMap

\* What saveLockFile writes when it writes everything.
Persisted(lf) == IF lf.nil THEN NullDeps ELSE OnDisk(lf.deps)

\* C19: once saveLockFile has returned, with or without an error,
\* .deps.lock is either what it was before the call or the whole of the
\* LockFile that was being saved.
C19_SaveIsAtomic ==
    (probe.done /\ probe.fn = "saveLockFile") =>
        probe.res.disk \in {probe.disk, Persisted(probe.lockFile)}

\* What holds of a save: a save that returns no error has written the whole
\* LockFile, and one that could not open the file has left it as it was.
C19_SaveWithoutErrorIsWhole ==
    (probe.done /\ probe.fn = "saveLockFile") =>
        /\ ~probe.res.err => probe.res.disk = Persisted(probe.lockFile)
        /\ probe.how = "open" => probe.res.disk = probe.disk

\* The reports of an invocation name an entry that failed.
SomeFailed ==
    \E k \in DOMAIN out : out[k].status \in Failures \cup {"save_error", "panic"}

\* C20: an invocation ends with a non-zero exit status exactly when it is a
\* get that failed or a check that reported an entry missing or in error;
\* every other invocation of get, check, install and update ends with 0.
C20_ExitStatus ==
    pc = "done" =>
        ((exit # 0) <=>
            \/ cmd = "get" /\ SomeFailed
            \/ cmd = "check" /\ \E k \in DOMAIN out : out[k].status # "ok")

\* What holds of the exit status: a get ends with a non-zero status exactly
\* when it failed, and a check that reports a missing entry does not.
C20_GetExitStatus ==
    pc = "done" =>
        /\ cmd = "get" => ((exit # 0) <=> SomeFailed)
        /\ (cmd = "check" /\ \A k \in DOMAIN out : out[k].status \in {"ok", "missing"})
              => exit = 0

\* C21: the step of update that resolves, for an entry, the identifier the
\* entry already records reports "no update", requests no archive, and
\* leaves the file system and the LockFile in memory as they were, the
\* entry's tree being on disk or not.
C21_NoUpdateNoAction ==
    [][pc = "update" =>
          \A k \in DOMAIN out' \ DOMAIN out :
              (out'[k].sha # "" /\ out'[k].sha = lockFile.deps[k].sha) =>
                  /\ out'[k].status = "noupdate"
                  /\ "tarball" \notin Made(out'[k].calls)
                  /\ out'[k].extracted = ""
                  /\ fs' = fs
                  /\ lockFile' = lockFile
      ]_vars

\* An update has found no update for an entry whose tree is not on disk.
C21_Witness ==
    /\ cmd = "update"
    /\ \E k \in DOMAIN out :
          /\ out[k].status = "noupdate"
          /\ out[k].sha = lockFile.deps[k].sha
          /\ ~Exists(fs, getDepPath(k))

\* Entry i of the archive of the call is a header that extractTarball does
\* not drop as metadata.
Real(i) ==
    /\ probe.entries[i].typeflag # "xglobal"
    /\ probe.entries[i].name # <<"pax_global_header">>

\* The index of the entry at which the wrapper is detected: the first real
\* entry whose name has a separator and whose first segment has a hyphen;
\* 0 when there is none.
Detected ==
    LET c == {i \in DOMAIN probe.entries :
                 /\ Real(i)
                 /\ Len(probe.entries[i].name) > 1
                 /\ ContainsHyphen(probe.entries[i].name[1])}
    IN  IF c = {} THEN 0 ELSE CHOOSE i \in c : \A j \in c : i <= j

\* Entry i is read once the wrapper is detected and lies under it.
Under(i) ==
    /\ Detected # 0 /\ i >= Detected /\ Real(i)
    /\ Len(probe.entries[i].name) > 1
    /\ probe.entries[i].name[1] = probe.entries[Detected].name[1]

\* C22: what extractTarball leaves on disk comes from the entries under the
\* detected wrapper only: every file is the target of a regular-file entry
\* read under the wrapper, every directory leads to the destination or to
\* such a target, and when no wrapper is detected the destination is empty.
C22_OnlyUnderWrapper ==
    probe.done =>
        /\ \A n \in probe.res.fs :
              IF n.kind = "file"
              THEN \E i \in DOMAIN probe.entries :
                       /\ Under(i) /\ probe.entries[i].typeflag = "reg"
                       /\ n.path = Stripped(probe.entries[i])
              ELSE \/ IsPrefix(n.path, DestPath)
                   \/ \E i \in DOMAIN probe.entries :
                          /\ Under(i) /\ probe.entries[i].typeflag \in {"reg", "dir"}
                          /\ IsPrefix(n.path, Stripped(probe.entries[i]))
        /\ Detected = 0 => probe.res.fs = MkdirAll({}, DestPath).fs

\* A top-level file, then a file outside the wrapper that is detected
\* after it, then a file under the wrapper: only the last one is written.
C22_Witness ==
    /\ probe.done /\ ~probe.res.err
    /\ probe.entries = <<File(<<"README">>, <<4>>),
                         File(<<"docs", "d.txt">>, <<6>>),
                         File(<<Wrapper, "a.txt">>, <<1, 2>>)>>
    /\ {n \in probe.res.fs : n.kind = "file"} = {OldFile(DestPath \o <<"a.txt">>, <<1, 2>>)}

\* C23: when extractTarball returns without error, the target of every
\* regular-file entry it wrote holds exactly the bytes of the last entry
\* written to that target.
C23_FileHoldsEntryBytes ==
    (probe.done /\ ~probe.res.err) =>
        \A i \in DOMAIN probe.entries :
            (/\ Under(i) /\ probe.entries[i].typeflag = "reg"
             /\ \A j \in DOMAIN probe.entries :
                   (j > i /\ Under(j)) => Stripped(probe.entries[j]) # Stripped(probe.entries[i]))
            => OldFile(Stripped(probe.entries[i]), probe.entries[i].data) \in probe.res.fs

\* What holds of the files: a target written once holds the entry's bytes.
C23_WrittenOnceHoldsBytes ==
    (probe.done /\ ~probe.res.err) =>
        \A i \in DOMAIN probe.entries :
            (/\ Under(i) /\ probe.entries[i].typeflag = "reg"
             /\ \A j \in DOMAIN probe.entries :
                   (j # i /\ Under(j)) => Stripped(probe.entries[j]) # Stripped(probe.entries[i]))
            => OldFile(Stripped(probe.entries[i]), probe.entries[i].data) \in probe.res.fs

\* C24: everything extractTarball creates or writes is the destination, lies
\* below it, or is a directory that leads to it.
C24_NothingOutsideDestination ==
    probe.done =>
        \A n \in probe.res.fs \ probe.fs :
            IsPrefix(DestPath, n.path) \/ (n.kind = "dir" /\ IsPrefix(n.path, DestPath))

\* What holds of the paths: an archive without ".." in its names stays
\* inside the destination.
C24_InsideWithoutDotDot ==
    (probe.done /\ \A i \in DOMAIN probe.entries : ".." \notin Range(probe.entries[i].name)) =>
        \A n \in probe.res.fs \ probe.fs :
            IsPrefix(DestPath, n.path) \/ (n.kind = "dir" /\ IsPrefix(n.path, DestPath))

\* C25: two different keys of .deps.lock never have the same path under
\* .deps.
C25_DistinctKeysDistinctPaths ==
    \A k1, k2 \in DOMAIN lockDisk.deps :
        k1 # k2 => getDepPath(k1) # getDepPath(k2)

\* What holds of the keys: every key that get stores is one that
\* parseGitHubURL accepts.
C25_StoredKeysAreAccepted ==
    \A k \in DOMAIN lockDisk.deps : ~parseGitHubURL(k).err

\* C26: an entry whose download or extraction has failed in this
\* invocation is one that checkDependency finds missing.
C26_FailedFetchIsMissing ==
    \A k \in DOMAIN out :
        out[k].status = "download_error" => checkDependency(fs, k) = "missing"

\* C27: a get that has resolved its ref and extracted the archive, and
\* whose save did not fail, ends with exit status 0 and with the entry of
\* the requested key in .deps.lock, whatever .deps.lock held.
C27_GetAcceptsAnyLedger ==
    (pc = "done" /\ cmd = "get") =>
        \A k \in DOMAIN out :
            (/\ out[k].extracted # "" /\ out[k].extracted = out[k].sha
             /\ out[k].status # "save_error") =>
                /\ exit = 0
                /\ lockDisk.form = "map"
                /\ k \in DOMAIN lockDisk.deps
                /\ lockDisk.deps[k].sha = out[k].sha

\* What holds of get: it ends so unless the file it loaded held a null
\* dependencies mapping.
C27_GetAcceptsNonNull ==
    (pc = "done" /\ cmd = "get" /\ ~lockFile.nil) =>
        \A k \in DOMAIN out :
            (/\ out[k].extracted # "" /\ out[k].extracted = out[k].sha
             /\ out[k].status # "save_error") =>
                /\ exit = 0
                /\ lockDisk.form = "map"
                /\ k \in DOMAIN lockDisk.deps
                /\ lockDisk.deps[k].sha = out[k].sha

\* The key that a step of get, or of an update of one key, is about.
Target == IF cmd' = "get" THEN arg'[1] ELSE arg'

\* C28: a step of get, or of an update of one key, that finds a
\* well-formed .deps.lock leaves in it the entry of every other key, with
\* its ref and its identifier, and leaves the tree of every other key as it
\* was.
C28_OnlyTargetChanges ==
    [][(/\ lockDisk.form = "map" /\ pc' # "idle"
        /\ (cmd' = "get" \/ (cmd' = "update" /\ arg' # <<>>))) =>
          \A k \in DOMAIN lockDisk.deps \ {Target} :
              /\ lockDisk'.form = "map"
              /\ k \in DOMAIN lockDisk'.deps
              /\ lockDisk'.deps[k] = lockDisk.deps[k]
              /\ Tree(fs', k) = Tree(fs, k)
      ]_vars

\* What holds of the other entries: they are kept unless the write of
\* .deps.lock fails part-way.
C28_OthersKeptUnlessTorn ==
    [][(/\ lockDisk.form = "map" /\ pc' # "idle"
        /\ lockDisk' # Malformed
        /\ (cmd' = "get" \/ (cmd' = "update" /\ arg' # <<>>))) =>
          \A k \in DOMAIN lockDisk.deps \ {Target} :
              /\ lockDisk'.form = "map"
              /\ k \in DOMAIN lockDisk'.deps
              /\ lockDisk'.deps[k] = lockDisk.deps[k]
              /\ Tree(fs', k) = Tree(fs, k)
      ]_vars

====
